---- MODULE Spec2Model ----
(***************************************************************************)
(* fbuilder: trace-driven sandbox policy synthesis.                        *)
(*                                                                         *)
(*   - build_seccomp  (src/src/fbuilder/build_seccomp.c): strace log ->    *)
(*     sorted, deduplicated seccomp.keep list                              *)
(*   - build_protocol (src/src/fbuilder/build_seccomp.c): firejail trace   *)
(*     log and its shards -> protocol / net none / netfilter               *)
(*   - build_profile  (src/src/fbuilder/build_profile.c): fork, supervise  *)
(*     with optional timeout, then write the policy document               *)
(*   - main           (src/src/fbuilder/main.c, src/unnamed/part_000):     *)
(*     the two entry points, which open the sink                           *)
(*                                                                         *)
(* Text is modelled as sequences of character codes (ASCII), so that       *)
(* strncmp, strcmp, isdigit, isalpha and isspace are computed as in C.     *)
(* The end of a sequence plays the role of the terminating NUL.            *)
(***************************************************************************)
EXTENDS Integers, Sequences, FiniteSets, TLC

VARIABLES
    \* ---- build_seccomp, run alone ----
    sPhase,        \* "ready" | "done"
    traceIn,       \* the syscall-trace file: [exists, lines]
    seccompOut,    \* the lines build_seccomp wrote
    syscallsArr,   \* char *syscalls[CAP] while the fgets loop runs; n is its length
    fedNames,      \* history: how many distinct valid names the loop has read
    \* ---- build_protocol, run alone (several invocations in one process) ----
    pPhase,        \* "idle" | "ran" | "aborted"
    flags,         \* the six static flags unix_s, inet, inet6, netlink, packet, bluetooth
    staleAtEntry,  \* the statics were not all zero when the last invocation began
    lastFs,        \* the files the last invocation saw: [0..5 -> [exists, lines]]
    protoOut,      \* the lines the last invocation wrote
    \* ---- the harness: main + build_profile ----
    entry,         \* which main: "main_c" | "part_000"
    args,          \* the parsed command line
    profFile,      \* the --build=<file> path on disk
    pc,            \* the harness's position
    exitCode,      \* -1 while running, else the exit status
    spawned,       \* fork() has created a child
    elapsed,       \* whole seconds since start = time(NULL)
    child,         \* the forked child: [st, at, grp, how]
    desc,          \* descendants of the child: [1..MaxDesc -> [st, grp]]
    artifacts,     \* the scratch artifacts that exist: a subset of {"trace", "syscalls"}
    trail,         \* history: the timeout path's steps, in order
    sflags,        \* the static protocol flags inside the harness process
    doc            \* the lines written to the sink through fp

vars ==
    <<sPhase, traceIn, seccompOut, syscallsArr, fedNames, pPhase, flags, staleAtEntry, lastFs, protoOut,
      entry, args, profFile, pc, exitCode, spawned, elapsed, child, desc,
      artifacts, trail, sflags, doc>>

seccompVars ==
    <<sPhase, traceIn, seccompOut, syscallsArr, fedNames>>

protocolVars ==
    <<pPhase, flags, staleAtEntry, lastFs, protoOut>>

harnessVars ==
    <<entry, args, profFile, pc, exitCode, spawned, elapsed, child, desc,
      artifacts, trail, sflags, doc>>

(***************************************************************************)
(* Bounds of the model.                                                    *)
(***************************************************************************)
\* lines in a syscall-trace file
MaxTraceLines ==
    3

\* lines in a protocol trace file
MaxProtoLines ==
    1

\* descendants the supervised child's family may fork
MaxDesc ==
    1

\* largest --build-timeout value tried, in seconds
MaxTimeout ==
    1

\* distinct valid names a trace holds beyond the capacity of the name array
MaxOverflow ==
    2

\* lines of new names that one step of the long-trace run may read in a row
BlockLines ==
    512

(***************************************************************************)
(* Program constants.                                                      *)
(***************************************************************************)
\* enum { CAP = 4096 }
CAP ==
    4096

\* char name[128]
NameSize ==
    128

\* for (int i = 1; i <= 5; i++)
LastShard ==
    5

\* MAX_BUF of fbuilder.h: the size of the buffer fgets fills
MAX_BUF ==
    4096

(***************************************************************************)
(* <ctype.h> in the C locale, and the <string.h> calls the code uses.      *)
(***************************************************************************)
isspace(c) ==
    c \in 9..13 \/ c = 32

isdigit(c) ==
    c \in 48..57

isalpha(c) ==
    c \in 65..90 \/ c \in 97..122

isalnum(c) ==
    isalpha(c) \/ isdigit(c)

\* *p for p = s + (i - 1); 0 is the terminating NUL
At(s, i) ==
    IF i \in 1..Len(s) THEN s[i] ELSE 0

\* strncmp(s + (i - 1), pfx, strlen(pfx)) == 0
HasPrefixAt(s, i, pfx) ==
    \A k \in 1..Len(pfx) : At(s, i + k - 1) = pfx[k]

\* strchr(s + (i - 1), c): the index of the first c at or after i, 0 for NULL
RECURSIVE strchr(_, _, _)
strchr(s, i, c) ==
    IF i > Len(s) THEN 0
    ELSE IF s[i] = c THEN i
    ELSE strchr(s, i + 1, c)

\* while (isspace(*p)) p++;
RECURSIVE SkipSpace(_, _)
SkipSpace(s, i) ==
    IF isspace(At(s, i)) THEN SkipSpace(s, i + 1) ELSE i

\* while (isdigit(*p)) p++;
RECURSIVE SkipDigits(_, _)
SkipDigits(s, i) ==
    IF isdigit(At(s, i)) THEN SkipDigits(s, i + 1) ELSE i

\* strcmp(a, b) < 0, characters compared as unsigned char
RECURSIVE StrLess(_, _)
StrLess(a, b) ==
    IF b = <<>> THEN FALSE
    ELSE IF a = <<>> THEN TRUE
    ELSE IF Head(a) # Head(b) THEN Head(a) < Head(b)
    ELSE StrLess(Tail(a), Tail(b))

(***************************************************************************)
(* Output lines.  A line is one '\n'-terminated piece of the sink; the     *)
(* fields hold what the format string's conversions were given.            *)
(***************************************************************************)
\* fprintf(fp, "<t>\n")
Lit(t) ==
    [text |-> t, names |-> <<>>, toks |-> <<>>, n |-> 0]

\* fprintf(fp, "# %d syscalls total\n", n); the literal "# 0 syscalls total\n"
\* of the two fallback blocks is the same text as this line for n = 0
CountLine(n) ==
    [text |-> "# %d syscalls total", names |-> <<>>, toks |-> <<>>, n |-> n]

\* fprintf(fp, "seccomp.keep "); the names, "," before all but the first; "\n"
KeepLine(names) ==
    [text |-> "seccomp.keep ", names |-> names, toks |-> <<>>, n |-> 0]

\* fprintf(fp, "protocol "); the family tokens; "\n"
ProtocolLine(toks) ==
    [text |-> "protocol ", names |-> <<>>, toks |-> toks, n |-> 0]

\* the three comment lines that follow every "syscalls total" line
HintBlock ==
    << Lit("# Probably you will need to add more syscalls to seccomp.keep. Look for"),
       Lit("# seccomp errors in /var/log/syslog or /var/log/audit/audit.log while"),
       Lit("# running your sandbox.") >>

\* the block both the open failure and n == 0 write
FallbackBlock ==
    <<CountLine(0)>> \o HintBlock

(***************************************************************************)
(* Literals of the two parsers.                                            *)
(***************************************************************************)
\* "[pid"
S_pid ==
    <<91, 112, 105, 100>>
\* "+++"
S_plus ==
    <<43, 43, 43>>
\* "---"
S_minus ==
    <<45, 45, 45>>
\* "strace:"
S_strace ==
    <<115, 116, 114, 97, 99, 101, 58>>
\* "Process "
S_Process ==
    <<80, 114, 111, 99, 101, 115, 115, 32>>
\* "socket "
S_socket ==
    <<115, 111, 99, 107, 101, 116, 32>>
\* "AF_LOCAL "
S_AF_LOCAL ==
    <<65, 70, 95, 76, 79, 67, 65, 76, 32>>
\* "AF_INET "
S_AF_INET ==
    <<65, 70, 95, 73, 78, 69, 84, 32>>
\* "AF_INET6 "
S_AF_INET6 ==
    <<65, 70, 95, 73, 78, 69, 84, 54, 32>>
\* "AF_NETLINK "
S_AF_NETLINK ==
    <<65, 70, 95, 78, 69, 84, 76, 73, 78, 75, 32>>
\* "AF_PACKET "
S_AF_PACKET ==
    <<65, 70, 95, 80, 65, 67, 75, 69, 84, 32>>
\* "AF_BLUETOOTH "
S_AF_BLUETOOTH ==
    <<65, 70, 95, 66, 76, 85, 69, 84, 79, 79, 84, 72, 32>>

(***************************************************************************)
(* build_seccomp                                                           *)
(***************************************************************************)
\* skip_pid_prefix: the index of the first character after the optional tag
skip_pid_prefix(line) ==
    LET p == SkipSpace(line, 1)
    IN  IF HasPrefixAt(line, p, S_pid)
        THEN LET end == strchr(line, p, 93)
             IN  IF end # 0 THEN SkipSpace(line, end + 1) ELSE p
        ELSE p

\* while ((isalnum(*p) || *p == '_') && i + 1 < outsz) out[i++] = *p++;
\* the index p stops at, having copied i characters so far
RECURSIVE NameEnd(_, _, _, _)
NameEnd(line, p, i, outsz) ==
    IF (isalnum(At(line, p)) \/ At(line, p) = 95) /\ i + 1 < outsz
    THEN NameEnd(line, p + 1, i + 1, outsz)
    ELSE p

\* extract_syscall_name: [ok |-> the return value, name |-> out]
extract_syscall_name(line, outsz) ==
    LET p == skip_pid_prefix(line)
        no == [ok |-> FALSE, name |-> <<>>]
    IN  IF HasPrefixAt(line, p, S_plus) THEN no
        ELSE IF HasPrefixAt(line, p, S_minus) THEN no
        ELSE IF HasPrefixAt(line, p, S_strace) THEN no
        ELSE IF HasPrefixAt(line, p, S_Process) THEN no
        ELSE IF ~isalpha(At(line, p)) /\ At(line, p) # 95 THEN no
        ELSE LET e == NameEnd(line, p, 0, outsz)
                 q == SkipSpace(line, e)
             IN  IF At(line, q) # 40
                 THEN [ok |-> FALSE, name |-> SubSeq(line, p, e - 1)]
                 ELSE [ok |-> e - p > 0, name |-> SubSeq(line, p, e - 1)]

\* a plausible slip: no scan for an equal name before the insertion
add_unique_nodedup(arr, cap, s) ==
    IF s = <<>> THEN arr
    ELSE IF Len(arr) >= cap THEN arr
    ELSE Append(arr, s)

\* a plausible slip: no test of *n against cap before the insertion
add_unique_nocap(arr, cap, s) ==
    IF s = <<>> THEN arr
    ELSE IF \E i \in 1..Len(arr) : arr[i] = s THEN arr
    ELSE Append(arr, s)

\* add_unique: the array after the call (n is its length)
add_unique(arr, cap, s) ==
    IF s = <<>> THEN arr
    ELSE IF \E i \in 1..Len(arr) : arr[i] = s THEN arr
    ELSE IF Len(arr) >= cap THEN arr
    ELSE Append(arr, s)

\* fgets(buf, MAX_BUF, in) on one '\n'-terminated line, with the '\n' taken
\* off: a line of MAX_BUF - 1 characters or more comes in pieces of
\* MAX_BUF - 1 characters, the last piece being what is left before the '\n'
RECURSIVE fgets(_)
fgets(line) ==
    IF Len(line) < MAX_BUF - 1 THEN <<line>>
    ELSE <<SubSeq(line, 1, MAX_BUF - 1)>> \o fgets(SubSeq(line, MAX_BUF, Len(line)))

\* what the successive fgets calls return on a file of these lines
RECURSIVE ReadPieces(_)
ReadPieces(lines) ==
    IF lines = <<>> THEN <<>>
    ELSE IF Len(lines) = 1 THEN fgets(lines[1])
    ELSE LET h == Len(lines) \div 2
         IN  ReadPieces(SubSeq(lines, 1, h)) \o ReadPieces(SubSeq(lines, h + 1, Len(lines)))

\* the body of the fgets loop on what the calls returned, in order (the first
\* half of the pieces, then the rest): extract_syscall_name, then add_unique
RECURSIVE ScanPieces(_, _, _)
ScanPieces(pieces, arr, cap) ==
    IF pieces = <<>> THEN arr
    ELSE IF Len(pieces) = 1
    THEN LET r == extract_syscall_name(pieces[1], NameSize)
         IN  IF r.ok THEN add_unique(arr, cap, r.name) ELSE arr
    ELSE LET h == Len(pieces) \div 2
             first == ScanPieces(SubSeq(pieces, 1, h), arr, cap)
         IN  IF Len(first) >= 0   \* first is evaluated before the rest is read
             THEN ScanPieces(SubSeq(pieces, h + 1, Len(pieces)), first, cap)
             ELSE first

\* while (fgets(buf, MAX_BUF, in)) { ... } on a file of these lines
ScanSyscalls(lines, arr, cap) ==
    ScanPieces(ReadPieces(lines), arr, cap)

\* how many elements of the sorted array b cmp_str puts before s; lo..hi
\* brackets the answer (called with 0 and Len(b))
RECURSIVE LowerBound(_, _, _, _)
LowerBound(b, s, lo, hi) ==
    IF lo >= hi THEN lo
    ELSE LET mid == (lo + hi + 1) \div 2
         IN  IF StrLess(b[mid], s) THEN LowerBound(b, s, mid, hi)
             ELSE LowerBound(b, s, lo, mid - 1)

\* how many entries of the increasing sequence pos are <= k; lo..hi brackets
\* the answer
RECURSIVE CountUpTo(_, _, _, _)
CountUpTo(pos, k, lo, hi) ==
    IF lo >= hi THEN lo
    ELSE LET mid == (lo + hi + 1) \div 2
         IN  IF pos[mid] <= k THEN CountUpTo(pos, k, mid, hi)
             ELSE CountUpTo(pos, k, lo, mid - 1)

\* two arrays sorted by cmp_str, merged into one: a[i] lands after the
\* elements of b that compare below it
Merge(a, b) ==
    LET posA == <<>> \o [i \in 1..Len(a) |-> i + LowerBound(b, a[i], 0, Len(b))]
    IN  <<>> \o [k \in 1..(Len(a) + Len(b)) |->
                   LET i == CountUpTo(posA, k, 0, Len(a))
                   IN  IF i >= 1 /\ posA[i] = k THEN a[i] ELSE b[k - i]]

\* qsort(syscalls, n, sizeof(char *), cmp_str): the array in cmp_str order
\* (computed by halving and merging, so that CAP entries can be sorted)
RECURSIVE qsort(_)
qsort(arr) ==
    IF Len(arr) <= 1 THEN arr
    ELSE LET h == Len(arr) \div 2
         IN  Merge(qsort(SubSeq(arr, 1, h)), qsort(SubSeq(arr, h + 1, Len(arr))))

\* build_seccomp after fclose(in): qsort, then the lines written to fp
EmitSeccomp(arr) ==
    LET sorted == qsort(arr)
    IN  IF Len(sorted) = 0 THEN FallbackBlock
        ELSE <<KeepLine(sorted), CountLine(Len(sorted))>> \o HintBlock

\* a plausible slip: the n == 0 test is missing
build_seccomp_cap_nozero(file, cap) ==
    IF ~file.open THEN FallbackBlock
    ELSE LET syscalls == qsort(ScanSyscalls(file.lines, <<>>, cap))
         IN  <<KeepLine(syscalls), CountLine(Len(syscalls))>> \o HintBlock

\* build_seccomp with the capacity as a parameter: the lines written to fp
build_seccomp_cap(file, cap) ==
    IF ~file.open THEN FallbackBlock
    ELSE LET syscalls == qsort(ScanSyscalls(file.lines, <<>>, cap))
         IN  IF Len(syscalls) = 0 THEN FallbackBlock
             ELSE <<KeepLine(syscalls), CountLine(Len(syscalls))>> \o HintBlock

\* build_seccomp(fname, fp)
build_seccomp(file) ==
    build_seccomp_cap(file, CAP)

(***************************************************************************)
(* build_protocol                                                          *)
(***************************************************************************)
\* static int unix_s = 0, inet = 0, inet6 = 0, netlink = 0, packet = 0, bluetooth = 0;
NoFlags ==
    [unix_s |-> FALSE, inet |-> FALSE, inet6 |-> FALSE,
     netlink |-> FALSE, packet |-> FALSE, bluetooth |-> FALSE]

\* one iteration of process_protocol's fgets loop: the flags after the line
process_protocol_line(fl, line) ==
    IF ~isdigit(At(line, 1)) THEN fl
    ELSE LET d == SkipDigits(line, 1)
         IN  IF At(line, d) # 58 THEN fl
             ELSE LET c == strchr(line, d + 1, 58)
                  IN  IF c = 0 THEN fl
                      ELSE IF ~HasPrefixAt(line, c + 1, S_socket) THEN fl
                      ELSE LET p == c + 1 + 7
                           IN  IF HasPrefixAt(line, p, S_AF_LOCAL)
                                   THEN [fl EXCEPT !.unix_s = TRUE]
                               ELSE IF HasPrefixAt(line, p, S_AF_INET)
                                   THEN [fl EXCEPT !.inet = TRUE]
                               ELSE IF HasPrefixAt(line, p, S_AF_INET6)
                                   THEN [fl EXCEPT !.inet6 = TRUE]
                               ELSE IF HasPrefixAt(line, p, S_AF_NETLINK)
                                   THEN [fl EXCEPT !.netlink = TRUE]
                               ELSE IF HasPrefixAt(line, p, S_AF_PACKET)
                                   THEN [fl EXCEPT !.packet = TRUE]
                               ELSE IF HasPrefixAt(line, p, S_AF_BLUETOOTH)
                                   THEN [fl EXCEPT !.bluetooth = TRUE]
                               ELSE fl

\* the body of process_protocol's fgets loop on what the calls returned
RECURSIVE ScanProtocol(_, _)
ScanProtocol(fl, pieces) ==
    IF pieces = <<>> THEN fl
    ELSE ScanProtocol(process_protocol_line(fl, Head(pieces)), Tail(pieces))

\* process_protocol(fname): whether it called exit(1) because fopen failed,
\* and the statics afterwards
process_protocol(fl, file) ==
    IF ~file.open THEN [aborted |-> TRUE, flags |-> fl]
    ELSE [aborted |-> FALSE, flags |-> ScanProtocol(fl, ReadPieces(file.lines))]

\* a plausible slip: the reset is missing, the statics keep their values
ResetFlags_leak(fl) ==
    fl

\* unix_s = inet = inet6 = netlink = packet = bluetooth = 0;
ResetFlags(fl) ==
    NoFlags

\* a plausible slip: the loop stops at the first shard that does not exist
RECURSIVE ScanShards_break(_, _, _)
ScanShards_break(r, fs, i) ==
    IF r.aborted \/ i > LastShard THEN r
    ELSE IF fs[i].exists
         THEN ScanShards_break(process_protocol(r.flags, fs[i]), fs, i + 1)
         ELSE r

\* for (i = 1; i <= 5; i++) if (stat(newname, &s) == 0) process_protocol(newname);
\* entered with r, the outcome of the scan of the primary file
RECURSIVE ScanShards(_, _, _)
ScanShards(r, fs, i) ==
    IF r.aborted \/ i > LastShard THEN r
    ELSE ScanShards(IF fs[i].exists THEN process_protocol(r.flags, fs[i]) ELSE r,
                    fs, i + 1)

\* a plausible slip: every observed family, local ones too, keeps the network
EmitProtocol_anyflag(fl) ==
    LET any == fl.unix_s \/ fl.inet \/ fl.inet6 \/ fl.netlink \/ fl.packet \/ fl.bluetooth
        toks == (IF fl.unix_s THEN <<"unix,">> ELSE <<>>)
             \o (IF fl.inet \/ fl.inet6 THEN <<"inet,inet6,">> ELSE <<>>)
             \o (IF fl.netlink THEN <<"netlink,">> ELSE <<>>)
             \o (IF fl.packet THEN <<"packet,">> ELSE <<>>)
             \o (IF fl.bluetooth THEN <<"bluetooth">> ELSE <<>>)
    IN  (IF any THEN <<ProtocolLine(toks)>> ELSE <<>>)
        \o (IF ~any THEN <<Lit("net none")>>
            ELSE <<Lit("#net eth0"), Lit("netfilter")>>)

\* the tail of build_protocol: the protocol line and the network decision
EmitProtocol(fl) ==
    LET any == fl.unix_s \/ fl.inet \/ fl.inet6 \/ fl.netlink \/ fl.packet \/ fl.bluetooth
        toks == (IF fl.unix_s THEN <<"unix,">> ELSE <<>>)
             \o (IF fl.inet \/ fl.inet6 THEN <<"inet,inet6,">> ELSE <<>>)
             \o (IF fl.netlink THEN <<"netlink,">> ELSE <<>>)
             \o (IF fl.packet THEN <<"packet,">> ELSE <<>>)
             \o (IF fl.bluetooth THEN <<"bluetooth">> ELSE <<>>)
        net  == (fl.inet \/ fl.inet6) \/ fl.packet \/ fl.bluetooth
    IN  (IF any THEN <<ProtocolLine(toks)>> ELSE <<>>)
        \o (IF ~net THEN <<Lit("net none")>>
            ELSE <<Lit("#net eth0"), Lit("netfilter")>>)

\* build_protocol(fname, fp) entered with the statics at fl, fs[0] the primary
\* file and fs[i] the shard fname.i: whether process_protocol called exit(1),
\* the statics afterwards, and the lines written to fp
build_protocol(fl, fs) ==
    LET r == ScanShards(process_protocol(ResetFlags(fl), fs[0]), fs, 1)
    IN  IF r.aborted
        THEN [aborted |-> TRUE, flags |-> r.flags, out |-> <<>>]
        ELSE [aborted |-> FALSE, flags |-> r.flags, out |-> EmitProtocol(r.flags)]

(***************************************************************************)
(* Files and the inputs tried.                                             *)
(***************************************************************************)
\* a path fopen() and stat() fail on
NoFile ==
    [exists |-> FALSE, open |-> FALSE, lines |-> <<>>]

\* a path stat() finds and fopen() fails on (no read permission, a socket)
NoOpen ==
    [exists |-> TRUE, open |-> FALSE, lines |-> <<>>]

\* a readable file holding these lines
File(lines) ==
    [exists |-> TRUE, open |-> TRUE, lines |-> lines]

\* every sequence over S of length at most n
SeqsUpTo(S, n) ==
    UNION { [1..k -> S] : k \in 0..n }

\* "[pid 100] openat(3"
L_pid_openat ==
    <<91, 112, 105, 100, 32, 49, 48, 48, 93, 32, 111, 112, 101, 110, 97, 116, 40, 51>>
\* "openat(4"
L_openat ==
    <<111, 112, 101, 110, 97, 116, 40, 52>>
\* "read(0"
L_read ==
    <<114, 101, 97, 100, 40, 48>>
\* "+++ exited +++"
L_exited ==
    <<43, 43, 43, 32, 101, 120, 105, 116, 101, 100, 32, 43, 43, 43>>
\* "--- SIGCHLD ---"
L_sigchld ==
    <<45, 45, 45, 32, 83, 73, 71, 67, 72, 76, 68, 32, 45, 45, 45>>
\* "strace: x("
L_strace ==
    <<115, 116, 114, 97, 99, 101, 58, 32, 120, 40>>
\* "Process 1 ("
L_process ==
    <<80, 114, 111, 99, 101, 115, 115, 32, 49, 32, 40>>
\* "  close (3"
L_close_sp ==
    <<32, 32, 99, 108, 111, 115, 101, 32, 40, 51>>
\* "_exit(0"
L_uexit ==
    <<95, 101, 120, 105, 116, 40, 48>>
\* "1abc("
L_digit ==
    <<49, 97, 98, 99, 40>>
\* "write"
L_noparen ==
    <<119, 114, 105, 116, 101>>
\* ""
L_empty ==
    <<>>
\* "[pid 7 brk(0"
L_pid_open ==
    <<91, 112, 105, 100, 32, 55, 32, 98, 114, 107, 40, 48>>
\* "Read(1"
L_Read ==
    <<82, 101, 97, 100, 40, 49>>
\* "4:prog:socket AF_INET 0.0.0.0:80"
P_inet ==
    <<52, 58, 112, 114, 111, 103, 58, 115, 111, 99, 107, 101, 116, 32, 65, 70, 95, 73, 78, 69, 84, 32, 48, 46, 48, 46, 48, 46, 48, 58, 56, 48>>
\* "5:prog:socket AF_INET6 ::1:80"
P_inet6 ==
    <<53, 58, 112, 114, 111, 103, 58, 115, 111, 99, 107, 101, 116, 32, 65, 70, 95, 73, 78, 69, 84, 54, 32, 58, 58, 49, 58, 56, 48>>
\* "12:p:socket AF_LOCAL x"
P_local ==
    <<49, 50, 58, 112, 58, 115, 111, 99, 107, 101, 116, 32, 65, 70, 95, 76, 79, 67, 65, 76, 32, 120>>
\* "4:p:socket AF_NETLINK 0"
P_netlink ==
    <<52, 58, 112, 58, 115, 111, 99, 107, 101, 116, 32, 65, 70, 95, 78, 69, 84, 76, 73, 78, 75, 32, 48>>
\* "4:p:socket AF_PACKET 0"
P_packet ==
    <<52, 58, 112, 58, 115, 111, 99, 107, 101, 116, 32, 65, 70, 95, 80, 65, 67, 75, 69, 84, 32, 48>>
\* "4:p:socket AF_BLUETOOTH 0"
P_bluetooth ==
    <<52, 58, 112, 58, 115, 111, 99, 107, 101, 116, 32, 65, 70, 95, 66, 76, 85, 69, 84, 79, 79, 84, 72, 32, 48>>
\* "4:p:open /etc/passwd"
P_open ==
    <<52, 58, 112, 58, 111, 112, 101, 110, 32, 47, 101, 116, 99, 47, 112, 97, 115, 115, 119, 100>>
\* "x:p:socket AF_INET 0"
P_nodigit ==
    <<120, 58, 112, 58, 115, 111, 99, 107, 101, 116, 32, 65, 70, 95, 73, 78, 69, 84, 32, 48>>
\* "4:p:socket AF_INET6"
P_nospace ==
    <<52, 58, 112, 58, 115, 111, 99, 107, 101, 116, 32, 65, 70, 95, 73, 78, 69, 84, 54>>
\* "4:p:socket AF_UNIX 0"
P_unknown ==
    <<52, 58, 112, 58, 115, 111, 99, 107, 101, 116, 32, 65, 70, 95, 85, 78, 73, 88, 32, 48>>
\* "4 p:socket AF_INET 0"
P_nocolon ==
    <<52, 32, 112, 58, 115, 111, 99, 107, 101, 116, 32, 65, 70, 95, 73, 78, 69, 84, 32, 48>>
\* "4:socket AF_INET 0"
P_onecolon ==
    <<52, 58, 115, 111, 99, 107, 101, 116, 32, 65, 70, 95, 73, 78, 69, 84, 32, 48>>

\* strace output lines: with and without a [pid N] tag, tracer meta-output,
\* a name followed by blanks, a leading underscore, a leading digit, no "(",
\* an empty line, an unclosed tag, an upper-case name
\* 'write(1, "' + MAX_BUF - 11 times 'A' + 'evil(3) = 0': a line that fgets
\* returns in two pieces, the second of them 'evil(3) = 0'
L_long ==
    <<119, 114, 105, 116, 101, 40, 49, 44, 32, 34>>
    \o [i \in 1..(MAX_BUF - 11) |-> 65]
    \o <<101, 118, 105, 108, 40, 51, 41, 32, 61, 32, 48>>

\* '4:p:open /' + MAX_BUF - 11 times 'x' + '5:q:socket AF_INET 0': a line that
\* fgets returns in two pieces, the second of them '5:q:socket AF_INET 0'
P_long ==
    <<52, 58, 112, 58, 111, 112, 101, 110, 32, 47>>
    \o [i \in 1..(MAX_BUF - 11) |-> 120]
    \o <<53, 58, 113, 58, 115, 111, 99, 107, 101, 116, 32, 65, 70, 95, 73, 78, 69, 84, 32, 48>>

SyscallLines ==
    { L_pid_openat, L_openat, L_read, L_exited, L_sigchld, L_strace, L_process,
      L_close_sp, L_uexit, L_digit, L_noparen, L_empty, L_pid_open, L_Read }

\* firejail --trace lines: the six families, and lines that must not match
ProtoLines ==
    { P_inet, P_inet6, P_local, P_netlink, P_packet, P_bluetooth,
      P_open, P_nodigit, P_nospace, P_unknown, P_nocolon, P_onecolon }

\* the smaller of two numbers
Min(a, b) ==
    IF a < b THEN a ELSE b

\* k in decimal
RECURSIVE Digits(_)
Digits(k) ==
    IF k < 10 THEN <<48 + k>>
    ELSE Append(Digits(k \div 10), 48 + (k % 10))

\* "s<k>"
SysName(k) ==
    <<115>> \o Digits(k)

\* "s<k>(3) = 0"
SysLine(k) ==
    SysName(k) \o <<40, 51, 41, 32, 61, 32, 48>>

\* a trace of CAP + MaxOverflow lines, each with a name of its own:
\* "s1(3) = 0", "s2(3) = 0", ...
OverCapTrace ==
    <<>> \o [i \in 1..(CAP + MaxOverflow) |-> SysLine(i)]

\* the same lines with the last one moved to the front, and after it a line
\* with its name again, behind a [pid N] prefix and with another argument
OverCapTraceLastFirst ==
    <<>> \o [i \in 1..(CAP + MaxOverflow + 1) |->
               IF i = 1 THEN SysLine(CAP + MaxOverflow)
               ELSE IF i = 2
               THEN SubSeq(L_pid_openat, 1, 10) \o SysName(CAP + MaxOverflow) \o <<40, 52, 41>>
               ELSE SysLine(i - 2)]

\* CAP + MaxOverflow lines with exactly CAP distinct names: the last name is
\* repeated, once with a [pid N] prefix
AtCapTrace ==
    <<>> \o [i \in 1..(CAP + MaxOverflow) |->
               IF i = CAP + 1 THEN SubSeq(L_pid_openat, 1, 10) \o SysLine(CAP) ELSE SysLine(Min(i, CAP))]

\* the syscall-trace files tried: none, an unopenable one, every file of up
\* to MaxTraceLines lines, files with a line longer than the fgets buffer,
\* and files with as many or more distinct names than the array holds
TraceInputs ==
    {NoFile, NoOpen}
    \cup { File(l) : l \in SeqsUpTo(SyscallLines, MaxTraceLines) }
    \cup { File(<<L_long>>), File(<<L_long, L_read>>), File(<<L_read, L_long>>) }
    \cup { File(OverCapTrace), File(OverCapTraceLastFirst), File(AtCapTrace) }

\* the protocol trace files tried
ProtoFiles ==
    { File(l) : l \in SeqsUpTo(ProtoLines, MaxProtoLines) }

\* no shard exists
NoShards ==
    [i \in 1..LastShard |-> NoFile]

\* primary file p with the shards sh
WithPrimary(p, sh) ==
    [i \in 0..LastShard |-> IF i = 0 THEN p ELSE sh[i]]

\* The file sets build_protocol is run on:
\*  - any primary file (or none) and no shard;
\*  - an empty primary file and shard 3 alone, with any contents;
\*  - an empty or AF_INET primary file and every pattern of missing and
\*    existing shards, the existing ones AF_INET6;
\*  - an AF_LOCAL primary file and every pattern of missing and existing
\*    shards, the existing ones AF_PACKET;
\*  - an AF_INET primary file and every pattern of missing shards and
\*    shards that cannot be opened;
\*  - the long line, in the primary file or in shard 1.
ProtocolInputs ==
    { WithPrimary(p, NoShards) : p \in {NoFile, NoOpen} \cup ProtoFiles }
    \cup { WithPrimary(File(<<P_inet>>), sh) : sh \in [1..LastShard -> {NoFile, NoOpen}] }
    \cup { WithPrimary(File(<<P_long>>), NoShards),
           WithPrimary(File(<<P_local>>), [NoShards EXCEPT ![1] = File(<<P_long>>)]) }
    \cup { WithPrimary(File(<<>>), [NoShards EXCEPT ![3] = f]) : f \in ProtoFiles }
    \cup { WithPrimary(p, sh) :
             p \in {File(<<>>), File(<<P_inet>>)},
             sh \in [1..LastShard -> {NoFile, File(<<P_inet6>>)}] }
    \cup { WithPrimary(File(<<P_local>>), sh) :
             sh \in [1..LastShard -> {NoFile, File(<<P_packet>>)}] }

(***************************************************************************)
(* The harness at rest: the value of its variables while one of the two    *)
(* transforms is run alone.                                                *)
(***************************************************************************)
NoArgs ==
    [debug |-> FALSE, appimage |-> FALSE, build |-> "none", timeout |-> 0,
     caps |-> FALSE, prog |-> FALSE]

NoChild ==
    [st |-> "none", at |-> "none", grp |-> "none", how |-> "none"]

NoDesc ==
    [d \in 1..MaxDesc |-> [st |-> "none", grp |-> "none"]]

HarnessIdle ==
    /\ entry = "none"
    /\ args = NoArgs
    /\ profFile = "none"
    /\ pc = "idle"
    /\ exitCode = -1
    /\ spawned = FALSE
    /\ elapsed = 0
    /\ child = NoChild
    /\ desc = NoDesc
    /\ artifacts = {}
    /\ trail = <<>>
    /\ sflags = NoFlags
    /\ doc = <<>>

SeccompIdle ==
    /\ sPhase = "idle"
    /\ traceIn = NoFile
    /\ seccompOut = <<>>
    /\ syscallsArr = <<>>
    /\ fedNames = 0

ProtocolIdle ==
    /\ pPhase = "off"
    /\ flags = NoFlags
    /\ staleAtEntry = FALSE
    /\ lastFs = WithPrimary(NoFile, NoShards)
    /\ protoOut = <<>>

(***************************************************************************)
(* build_seccomp run alone on one trace file.                              *)
(***************************************************************************)
SeccompInit ==
    /\ sPhase = "ready"
    /\ traceIn \in TraceInputs
    /\ seccompOut = <<>>
    /\ syscallsArr = <<>>
    /\ fedNames = 0
    /\ ProtocolIdle
    /\ HarnessIdle

\* build_seccomp(fname, fp)
RunBuildSeccomp ==
    /\ sPhase = "ready"
    /\ sPhase' = "done"
    /\ seccompOut' = build_seccomp(traceIn)
    /\ UNCHANGED <<traceIn, syscallsArr, fedNames, protocolVars, harnessVars>>

SeccompNext ==
    RunBuildSeccomp

SpecSeccomp ==
    SeccompInit /\ [][SeccompNext]_vars

(***************************************************************************)
(* build_seccomp run alone, one fgets at a time, on traces long enough to  *)
(* fill the name array.  The file is not kept in the state: its lines      *)
(* arrive one by one, and the k-th distinct name of the trace is "s<k>".   *)
(***************************************************************************)
\* what the loop may read next after f distinct names: one line (the next
\* new name, the first name again, the latest name again, or a line that
\* yields no name), or a run of lines with the next BlockLines new names
NextLines(f) ==
    { <<SysLine(k)>> : k \in {1, f, f + 1} \cap 1..(CAP + MaxOverflow) }
    \cup {<<L_exited>>}
    \cup { <<>> \o [i \in 1..Min(BlockLines, CAP + MaxOverflow - f) |-> SysLine(f + i)] :
             x \in IF f % BlockLines = 0 /\ f < CAP + MaxOverflow THEN {1} ELSE {} }

CapInit ==
    /\ sPhase = "reading"
    /\ traceIn = NoFile
    /\ seccompOut = <<>>
    /\ syscallsArr = <<>>
    /\ fedNames = 0
    /\ ProtocolIdle
    /\ HarnessIdle

\* turns of the while (fgets(...)) loop, one for each line read
ReadLines ==
    /\ sPhase = "reading"
    /\ \E lines \in NextLines(fedNames) :
          /\ syscallsArr' = ScanSyscalls(lines, syscallsArr, CAP)
          /\ fedNames' = IF lines[Len(lines)] = SysLine(fedNames + Len(lines))
                         THEN fedNames + Len(lines)
                         ELSE fedNames
    /\ UNCHANGED <<sPhase, traceIn, seccompOut, protocolVars, harnessVars>>

\* fgets returns NULL: fclose, qsort and the output; the traces end after at
\* most MaxTraceLines distinct names or after at least CAP - 1 of them
EndOfFile ==
    /\ sPhase = "reading"
    /\ fedNames <= MaxTraceLines \/ fedNames >= CAP - 1
    /\ sPhase' = "done"
    /\ seccompOut' = EmitSeccomp(syscallsArr)
    /\ UNCHANGED <<traceIn, syscallsArr, fedNames, protocolVars, harnessVars>>

CapNext ==
    \/ ReadLines
    \/ EndOfFile

SpecCap ==
    CapInit /\ [][CapNext]_vars

(***************************************************************************)
(* build_protocol run alone, any number of times in one process.           *)
(***************************************************************************)
ProtocolInit ==
    /\ pPhase = "idle"
    /\ flags = NoFlags
    /\ staleAtEntry = FALSE
    /\ lastFs = WithPrimary(NoFile, NoShards)
    /\ protoOut = <<>>
    /\ SeccompIdle
    /\ HarnessIdle

\* build_protocol(fname, fp): process_protocol's exit(1) ends the process
RunBuildProtocol ==
    /\ pPhase \in {"idle", "ran"}
    /\ \E fs \in ProtocolInputs :
          LET r == build_protocol(flags, fs)
          IN  /\ pPhase' = IF r.aborted THEN "aborted" ELSE "ran"
              /\ flags' = r.flags
              /\ staleAtEntry' = (flags # NoFlags)
              /\ lastFs' = fs
              /\ protoOut' = r.out
    /\ UNCHANGED <<seccompVars, harnessVars>>

ProtocolNext ==
    RunBuildProtocol

SpecProtocol ==
    ProtocolInit /\ [][ProtocolNext]_vars

(***************************************************************************)
(* The policy document's fixed lines.                                      *)
(***************************************************************************)
\* build_home, build_run, build_runuser, build_share, build_var, build_bin,
\* build_dev, build_etc, build_tmp: the filesystem whitelist builders, which
\* append their own lines to fp; their output stands as one line
ExternalBuilder(name) ==
    <<Lit(name)>>

\* build_profile from "Always emit the profile" down to the call of
\* build_protocol: the banner (sink stdout only), the header, the
\* blacklisting block, home and filesystem whitelisting, the capabilities
\* line and the fixed options
HeaderLines(a) ==
    (IF a.build # "file"
     THEN <<Lit("--- Built profile begins after this line ---")>> ELSE <<>>)
    \o << Lit("# Save this file as \"application.profile\" (change \"application\" with the"),
          Lit("# program name) in ~/.config/firejail directory. Firejail will find it"),
          Lit("# automatically every time you sandbox your application."),
          Lit("#"),
          Lit("# Run \"firejail application\" to test it. In the file there are"),
          Lit("# some other commands you can try. Enable them by removing the \"#\"."),
          Lit(""),
          Lit("# Firejail profile for %s"),
          Lit("# Persistent local customizations"),
          Lit("#include %s.local"),
          Lit("# Persistent global definitions"),
          Lit("#include globals.local"),
          Lit(""),
          Lit("### Basic Blacklisting ###"),
          Lit("### Enable as many of them as you can! A very important one is"),
          Lit("### \"disable-exec.inc\". This will make among other things your home"),
          Lit("### and /tmp directories non-executable."),
          Lit("include disable-common.inc\t# dangerous directories like ~/.ssh and ~/.gnupg"),
          Lit("#include disable-devel.inc\t# development tools such as gcc and gdb"),
          Lit("#include disable-exec.inc\t# non-executable directories such as /var, /tmp, and /home"),
          Lit("#include disable-interpreters.inc\t# perl, python, lua etc."),
          Lit("include disable-programs.inc\t# user configuration for programs such as firefox, vlc etc."),
          Lit("#include disable-shell.inc\t# sh, bash, zsh etc."),
          Lit("#include disable-xdg.inc\t# standard user directories: Documents, Pictures, Videos, Music"),
          Lit(""),
          Lit("### Home Directory Whitelisting ###"),
          Lit("### If something goes wrong, this section is the first one to comment out."),
          Lit("### Instead, you'll have to relay on the basic blacklisting above.") >>
    \o ExternalBuilder("<build_home>")
    \o << Lit(""),
          Lit("### Filesystem Whitelisting ###") >>
    \o ExternalBuilder("<build_run>")
    \o ExternalBuilder("<build_runuser>")
    \o (IF ~a.appimage THEN ExternalBuilder("<build_share>") ELSE <<>>)
    \o ExternalBuilder("<build_var>")
    \o << Lit(""),
          Lit("#apparmor\t# if you have AppArmor running, try this one!") >>
    \o (IF a.caps THEN <<Lit("caps.keep %s")>> ELSE <<>>)
    \o << Lit("ipc-namespace"),
          Lit("netfilter"),
          Lit("#no3d\t# disable 3D acceleration"),
          Lit("#nodvd\t# disable DVD and CD devices"),
          Lit("#nogroups\t# disable supplementary user groups"),
          Lit("#noinput\t# disable input devices"),
          Lit("nonewprivs"),
          Lit("noroot"),
          Lit("#notv\t# disable DVB TV devices"),
          Lit("#nou2f\t# disable U2F devices"),
          Lit("#novideo\t# disable video capture devices") >>

\* build_profile after build_seccomp: the trailer
TrailerLines(a) ==
    << Lit("#tracelog\t# send blacklist violations to syslog"),
       Lit(""),
       Lit("#disable-mnt\t# no access to /mnt, /media, /run/mount and /run/media") >>
    \o (IF ~a.appimage THEN ExternalBuilder("<build_bin>") ELSE <<>>)
    \o <<Lit("#private-cache\t# run with an empty ~/.cache directory")>>
    \o ExternalBuilder("<build_dev>")
    \o ExternalBuilder("<build_etc>")
    \o <<Lit("#private-lib")>>
    \o ExternalBuilder("<build_tmp>")
    \o << Lit(""),
          Lit("#dbus-user none"),
          Lit("#dbus-system none"),
          Lit(""),
          Lit("#memory-deny-write-execute") >>

(***************************************************************************)
(* The harness: main, then build_profile.                                  *)
(***************************************************************************)
\* the command lines tried: --debug, --appimage and --caps.keep=LIST all
\* absent or all given; build is "none" without a --build option, "flag" for
\* --build and "file" for --build=<file>; timeout is --build-timeout's value
\* (0 when the option is absent); prog tells whether a program follows
ArgsSet ==
    { [debug |-> o, appimage |-> o, caps |-> o, build |-> b, timeout |-> t, prog |-> g] :
        o \in BOOLEAN, b \in {"none", "flag", "file"}, t \in 0..MaxTimeout,
        g \in BOOLEAN }

\* the --build=<file> path before the run: it does not exist and can be
\* created ("absent"); it exists and is writable ("old"); it exists and is
\* not writable ("readonly"); it does not exist and cannot be created ("nodir")
ProfFileStates ==
    {"absent", "old", "readonly", "nodir"}

\* parse_build_timeout: if (n < 0) n = 0;
parse_build_timeout(a) ==
    IF a.timeout < 0 THEN 0 ELSE a.timeout

\* a process that runs: "alive", or "dying" once SIGKILL is pending on it
\* and has not yet ended it
Living(p) ==
    p.st \in {"alive", "dying"}

\* the processes kill(-child, sig) reaches: the members of the process group
\* whose id is the child's pid.  No such group exists (ESRCH) while it has
\* no member.
GroupHasChild ==
    Living(child) /\ child.grp = "own"

GroupDesc ==
    { d \in 1..MaxDesc : Living(desc[d]) /\ desc[d].grp = "child" }

\* some process of the child's family can still run
FamilyRuns ==
    \/ Living(child) /\ child.at = "run"
    \/ \E d \in 1..MaxDesc : Living(desc[d])

HarnessInit ==
    /\ entry \in {"main_c", "part_000"}
    /\ args \in ArgsSet
    /\ profFile \in IF args.build = "file" THEN ProfFileStates ELSE {"none"}
    /\ pc = "main"
    /\ exitCode = -1
    /\ spawned = FALSE
    /\ elapsed = 0
    /\ child = NoChild
    /\ desc = NoDesc
    /\ artifacts = {}
    /\ trail = <<>>
    /\ sflags = NoFlags
    /\ doc = <<>>
    /\ SeccompIdle
    /\ ProtocolIdle

\* exit(1), also through errExit
Abort ==
    /\ pc' = "exited"
    /\ exitCode' = 1

\* main of src/fbuilder/main.c up to the call of build_profile: the profile
\* file must not exist (access F_OK), then it is opened for writing; with no
\* program on the command line the new file is closed and unlinked
Main_c ==
    /\ pc = "main"
    /\ entry = "main_c"
    /\ IF args.build = "file" /\ profFile \in {"old", "readonly"}
       THEN Abort /\ UNCHANGED profFile
       ELSE IF args.build = "file" /\ profFile = "nodir"
       THEN Abort /\ UNCHANGED profFile
       ELSE IF ~args.prog
       THEN Abort /\ profFile' = IF args.build = "file" THEN "absent" ELSE profFile
       ELSE /\ pc' = "build_profile"
            /\ profFile' = IF args.build = "file" THEN "new" ELSE profFile
            /\ UNCHANGED exitCode
    /\ UNCHANGED <<spawned, elapsed, child, desc, artifacts, trail, sflags, doc>>
    /\ UNCHANGED <<entry, args, seccompVars, protocolVars>>

\* main of the second entry point up to the call of build_profile: the
\* profile file is opened with fopen(fname, "w") and nothing else; usage()
\* exits with 1 when --build or the program is missing
Main_part_000 ==
    /\ pc = "main"
    /\ entry = "part_000"
    /\ IF args.build = "file" /\ profFile \in {"readonly", "nodir"}
       THEN Abort /\ UNCHANGED profFile
       ELSE /\ profFile' = IF args.build # "file" THEN profFile
                           ELSE IF profFile = "old" THEN "truncated" ELSE "new"
            /\ IF args.build = "none" \/ ~args.prog
               THEN Abort
               ELSE pc' = "build_profile" /\ UNCHANGED exitCode
    /\ UNCHANGED <<spawned, elapsed, child, desc, artifacts, trail, sflags, doc>>
    /\ UNCHANGED <<entry, args, seccompVars, protocolVars>>

\* build_profile up to fork: the two mkstemp calls and the command vector.
\* errExit ends the run when the first mkstemp fails (no artifact exists),
\* when the second fails (the trace artifact exists and stays), or when an
\* allocation for the command vector fails (both exist and stay)
Setup ==
    /\ pc = "build_profile"
    /\ \E r \in {"ok", "mkstemp1", "mkstemp2", "alloc"} :
          /\ artifacts' = CASE r = "mkstemp1" -> {}
                            [] r = "mkstemp2" -> {"trace"}
                            [] OTHER          -> {"trace", "syscalls"}
          /\ IF r = "ok" THEN pc' = "fork" /\ UNCHANGED exitCode ELSE Abort
    /\ UNCHANGED <<profFile, spawned, elapsed, child, desc, trail, sflags, doc>>
    /\ UNCHANGED <<entry, args, seccompVars, protocolVars>>

\* pid_t child = fork(); if (child == -1) errExit("fork");
Fork ==
    /\ pc = "fork"
    /\ \E ok \in BOOLEAN :
          IF ok
          THEN /\ child' = [st |-> "alive", at |-> "setpgid", grp |-> "parent",
                            how |-> "none"]
               /\ spawned' = TRUE
               /\ pc' = "setpgid"
               /\ UNCHANGED exitCode
          ELSE Abort /\ UNCHANGED <<child, spawned>>
    /\ UNCHANGED <<profFile, elapsed, desc, artifacts, trail, sflags, doc>>
    /\ UNCHANGED <<entry, args, seccompVars, protocolVars>>

\* setpgid(child, child) in the parent (it fails once the child has called
\* exec or has ended), int status = 0, and start = time(NULL)
ParentSetpgid ==
    /\ pc = "setpgid"
    /\ pc' = IF parse_build_timeout(args) > 0 THEN "poll" ELSE "waitblock"
    /\ elapsed' = 0
    /\ child' = IF child.st = "alive" /\ child.at \in {"setpgid", "exec"}
                THEN [child EXCEPT !.grp = "own"] ELSE child
    /\ UNCHANGED <<profFile, exitCode, spawned, desc, artifacts, trail, sflags, doc>>
    /\ UNCHANGED <<entry, args, seccompVars, protocolVars>>

\* (void)waitpid(child, &status, 0) of the branch without a timeout
WaitBlock ==
    /\ pc = "waitblock"
    /\ child.st = "zombie"
    /\ child' = [child EXCEPT !.st = "reaped"]
    /\ pc' = "synth"
    /\ UNCHANGED <<profFile, exitCode, spawned, elapsed, desc, artifacts, trail, sflags, doc>>
    /\ UNCHANGED <<entry, args, seccompVars, protocolVars>>

\* pid_t r = waitpid(child, &status, WNOHANG); if (r == child) break;
Poll ==
    /\ pc = "poll"
    /\ IF child.st = "zombie"
       THEN child' = [child EXCEPT !.st = "reaped"] /\ pc' = "synth"
       ELSE UNCHANGED child /\ pc' = "checktime"
    /\ UNCHANGED <<profFile, exitCode, spawned, elapsed, desc, artifacts, trail, sflags, doc>>
    /\ UNCHANGED <<entry, args, seccompVars, protocolVars>>

\* now = time(NULL); if ((int)(now - start) >= build_timeout) the timeout
\* path is entered, else usleep(100 * 1000) and the next round
CheckTime ==
    /\ pc = "checktime"
    /\ IF elapsed >= parse_build_timeout(args)
       THEN pc' = "sigterm" /\ trail' = Append(trail, "TIMEOUT")
       ELSE pc' = "poll" /\ UNCHANGED trail
    /\ UNCHANGED <<profFile, exitCode, spawned, elapsed, child, desc, artifacts, sflags, doc>>
    /\ UNCHANGED <<entry, args, seccompVars, protocolVars>>

\* the family after kill(-pgid, SIGKILL) has returned: the signal is pending
\* on every member of the group; kill does not wait for it to end them
AfterSigkill(c, ds) ==
    [c |-> IF Living(c) /\ c.grp = "own" THEN [c EXCEPT !.st = "dying"] ELSE c,
     ds |-> [d \in 1..MaxDesc |->
               IF Living(ds[d]) /\ ds[d].grp = "child"
               THEN [ds[d] EXCEPT !.st = "dying"] ELSE ds[d]]]

\* a plausible slip: kill_process_group sends the kill signal at once
SigTerm_kill ==
    /\ pc = "sigterm"
    /\ child' = AfterSigkill(child, desc).c
    /\ desc' = AfterSigkill(child, desc).ds
    /\ trail' = Append(trail, "SIGKILL")
    /\ pc' = "reap"
    /\ UNCHANGED <<profFile, exitCode, spawned, elapsed, artifacts, sflags, doc>>
    /\ UNCHANGED <<entry, args, seccompVars, protocolVars>>

\* kill(-pgid, SIGTERM): each member of the group either ends or, having
\* trapped or ignored the signal, goes on
SigTerm ==
    /\ pc = "sigterm"
    /\ \E cdies \in BOOLEAN, D \in SUBSET { d \in GroupDesc : desc[d].st = "alive" } :
          /\ cdies => (GroupHasChild /\ child.st = "alive")
          /\ child' = IF cdies THEN [child EXCEPT !.st = "zombie", !.how = "killed"]
                      ELSE child
          /\ desc' = [d \in 1..MaxDesc |->
                        IF d \in D THEN [desc[d] EXCEPT !.st = "dead"] ELSE desc[d]]
    /\ trail' = Append(trail, "SIGTERM")
    /\ pc' = "grace"
    /\ UNCHANGED <<profFile, exitCode, spawned, elapsed, artifacts, sflags, doc>>
    /\ UNCHANGED <<entry, args, seccompVars, protocolVars>>

\* usleep(250 * 1000)
Grace ==
    /\ pc = "grace"
    /\ trail' = Append(trail, "GRACE")
    /\ pc' = "sigkill"
    /\ UNCHANGED <<profFile, exitCode, spawned, elapsed, child, desc, artifacts, sflags, doc>>
    /\ UNCHANGED <<entry, args, seccompVars, protocolVars>>

\* kill(-pgid, SIGKILL): ESRCH and no effect when the group has no member
SigKill ==
    /\ pc = "sigkill"
    /\ child' = AfterSigkill(child, desc).c
    /\ desc' = AfterSigkill(child, desc).ds
    /\ trail' = Append(trail, "SIGKILL")
    /\ pc' = "reap"
    /\ UNCHANGED <<profFile, exitCode, spawned, elapsed, artifacts, sflags, doc>>
    /\ UNCHANGED <<entry, args, seccompVars, protocolVars>>

\* (void)waitpid(child, &status, 0) after kill_process_group: it returns
\* when the child has ended, by SIGKILL or, having left the group, by itself
Reap ==
    /\ pc = "reap"
    /\ child.st = "zombie"
    /\ child' = [child EXCEPT !.st = "reaped"]
    /\ trail' = Append(trail, "REAP")
    /\ pc' = "synth"
    /\ UNCHANGED <<profFile, exitCode, spawned, elapsed, desc, artifacts, sflags, doc>>
    /\ UNCHANGED <<entry, args, seccompVars, protocolVars>>

\* what the isolation-event artifact and its shards hold when build_protocol
\* reads them: nothing recognised; the two files of an IPv4 + IPv6 run; local
\* sockets only; an IPv4 socket and a shard 2 that cannot be opened
HarnessProtoInputs ==
    { WithPrimary(File(<<>>), NoShards),
      WithPrimary(File(<<P_inet>>), [NoShards EXCEPT ![1] = File(<<P_inet6>>)]),
      WithPrimary(File(<<P_local>>), NoShards),
      WithPrimary(File(<<P_inet>>), [NoShards EXCEPT ![2] = NoOpen]) }

\* what the syscall-trace artifact holds when build_seccomp reads it
HarnessTraceInputs ==
    { File(<<>>), File(<<L_exited>>), File(<<L_pid_openat, L_read, L_openat>>) }

\* build_profile from "Always emit the profile" to the line before build_protocol
EmitHeader ==
    /\ pc = "synth"
    /\ doc' = doc \o HeaderLines(args)
    /\ pc' = "protocol"
    /\ UNCHANGED <<profFile, exitCode, spawned, elapsed, child, desc, artifacts, trail, sflags>>
    /\ UNCHANGED <<entry, args, seccompVars, protocolVars>>

\* build_protocol(trace_output, fp); process_protocol's exit(1) ends the run
BuildProtocolStep ==
    /\ pc = "protocol"
    /\ \E fs \in IF "trace" \in artifacts THEN HarnessProtoInputs
                 ELSE {WithPrimary(NoFile, NoShards)} :
          LET r == build_protocol(sflags, fs)
          IN  /\ sflags' = r.flags
              /\ doc' = doc \o r.out
              /\ IF r.aborted THEN Abort ELSE pc' = "seccomp" /\ UNCHANGED exitCode
    /\ UNCHANGED <<profFile, spawned, elapsed, child, desc, artifacts, trail>>
    /\ UNCHANGED <<entry, args, seccompVars, protocolVars>>

\* build_seccomp(syscall_output, fp)
BuildSeccompStep ==
    /\ pc = "seccomp"
    /\ \E f \in IF "syscalls" \in artifacts THEN HarnessTraceInputs ELSE {NoFile} :
          doc' = doc \o build_seccomp(f)
    /\ pc' = "trailer"
    /\ UNCHANGED <<profFile, exitCode, spawned, elapsed, child, desc, artifacts, trail, sflags>>
    /\ UNCHANGED <<entry, args, seccompVars, protocolVars>>

\* build_profile from "#tracelog" to "#memory-deny-write-execute"
EmitTrailer ==
    /\ pc = "trailer"
    /\ doc' = doc \o TrailerLines(args)
    /\ pc' = "cleanup"
    /\ UNCHANGED <<profFile, exitCode, spawned, elapsed, child, desc, artifacts, trail, sflags>>
    /\ UNCHANGED <<entry, args, seccompVars, protocolVars>>

\* if (!arg_debug) { unlink(trace_output); unlink(syscall_output); }
Cleanup ==
    /\ pc = "cleanup"
    /\ artifacts' = IF args.debug THEN artifacts ELSE {}
    /\ pc' = "return"
    /\ UNCHANGED <<profFile, exitCode, spawned, elapsed, child, desc, trail, sflags, doc>>
    /\ UNCHANGED <<entry, args, seccompVars, protocolVars>>

\* back in main: fclose(fp) for a profile file, return 0
MainReturn ==
    /\ pc = "return"
    /\ pc' = "exited"
    /\ exitCode' = 0
    /\ UNCHANGED <<profFile, spawned, elapsed, child, desc, artifacts, trail, sflags, doc>>
    /\ UNCHANGED <<entry, args, seccompVars, protocolVars>>

(***************************************************************************)
(* The child, its descendants and the clock.  They are followed until the  *)
(* harness process has ended.                                              *)
(***************************************************************************)
Watched ==
    pc # "exited"

\* setpgid(0, 0) in the child
ChildSetpgid ==
    /\ Watched
    /\ child.st = "alive" /\ child.at = "setpgid"
    /\ child' = [child EXCEPT !.grp = "own", !.at = "exec"]
    /\ UNCHANGED <<profFile, pc, exitCode, spawned, elapsed, desc, artifacts, trail, sflags, doc>>
    /\ UNCHANGED <<entry, args, seccompVars, protocolVars>>

\* execvp(cmd[0], cmd); errExit("execv") when it returns
ChildExec ==
    /\ Watched
    /\ child.st = "alive" /\ child.at = "exec"
    /\ \E ok \in BOOLEAN :
          child' = IF ok THEN [child EXCEPT !.at = "run"]
                   ELSE [child EXCEPT !.st = "zombie", !.how = "exit"]
    /\ UNCHANGED <<profFile, pc, exitCode, spawned, elapsed, desc, artifacts, trail, sflags, doc>>
    /\ UNCHANGED <<entry, args, seccompVars, protocolVars>>

\* the wrapped command ends: it exits, or a signal not sent by the harness
\* ends it
ChildEnds ==
    /\ Watched
    /\ child.st = "alive" /\ child.at = "run"
    /\ \E h \in {"exit", "signal"} :
          child' = [child EXCEPT !.st = "zombie", !.how = h]
    /\ UNCHANGED <<profFile, pc, exitCode, spawned, elapsed, desc, artifacts, trail, sflags, doc>>
    /\ UNCHANGED <<entry, args, seccompVars, protocolVars>>

\* the wrapped command moves itself to another process group (setpgid to a
\* group of its session, such as the harness's)
ChildLeavesGroup ==
    /\ Watched
    /\ child.st = "alive" /\ child.at = "run" /\ child.grp = "own"
    /\ child' = [child EXCEPT !.grp = "other"]
    /\ UNCHANGED <<profFile, pc, exitCode, spawned, elapsed, desc, artifacts, trail, sflags, doc>>
    /\ UNCHANGED <<entry, args, seccompVars, protocolVars>>

\* a pending SIGKILL ends the process it is pending on
KillDelivered ==
    /\ Watched
    /\ \/ /\ child.st = "dying"
          /\ child' = [child EXCEPT !.st = "zombie", !.how = "killed"]
          /\ UNCHANGED desc
       \/ /\ \E d \in 1..MaxDesc :
                /\ desc[d].st = "dying"
                /\ desc' = [desc EXCEPT ![d].st = "dead"]
          /\ UNCHANGED child
    /\ UNCHANGED <<profFile, pc, exitCode, spawned, elapsed, artifacts, trail, sflags, doc>>
    /\ UNCHANGED <<entry, args, seccompVars, protocolVars>>

\* a process of the family forks: the new process is in the process group
\* its parent is in at that moment, the child's group or another one (it
\* takes the first free place of desc)
DescFork ==
    /\ Watched
    /\ \E d \in 1..MaxDesc :
          /\ desc[d].st = "none"
          /\ \A e \in 1..(d - 1) : desc[e].st # "none"
          /\ \/ /\ child.st = "alive" /\ child.at = "run"
                /\ desc' = [desc EXCEPT ![d] =
                              [st |-> "alive",
                               grp |-> IF child.grp = "own" THEN "child" ELSE "other"]]
             \/ \E p \in 1..MaxDesc :
                   /\ desc[p].st = "alive"
                   /\ desc' = [desc EXCEPT ![d] = [st |-> "alive", grp |-> desc[p].grp]]
    /\ UNCHANGED <<profFile, pc, exitCode, spawned, elapsed, child, artifacts, trail, sflags, doc>>
    /\ UNCHANGED <<entry, args, seccompVars, protocolVars>>

\* a descendant ends by itself
DescEnds ==
    /\ Watched
    /\ \E d \in 1..MaxDesc :
          /\ desc[d].st = "alive"
          /\ desc' = [desc EXCEPT ![d].st = "dead"]
    /\ UNCHANGED <<profFile, pc, exitCode, spawned, elapsed, child, artifacts, trail, sflags, doc>>
    /\ UNCHANGED <<entry, args, seccompVars, protocolVars>>

\* a descendant moves itself to another process group (setsid, setpgid)
DescLeavesGroup ==
    /\ Watched
    /\ \E d \in 1..MaxDesc :
          /\ desc[d].st = "alive" /\ desc[d].grp = "child"
          /\ desc' = [desc EXCEPT ![d].grp = "other"]
    /\ UNCHANGED <<profFile, pc, exitCode, spawned, elapsed, child, artifacts, trail, sflags, doc>>
    /\ UNCHANGED <<entry, args, seccompVars, protocolVars>>

\* a process of the family unlinks a scratch artifact (both are in /tmp and
\* belong to the user the family runs as)
FamilyUnlinks ==
    /\ Watched
    /\ FamilyRuns
    /\ \E f \in artifacts : artifacts' = artifacts \ {f}
    /\ UNCHANGED <<profFile, pc, exitCode, spawned, elapsed, child, desc, trail, sflags, doc>>
    /\ UNCHANGED <<entry, args, seccompVars, protocolVars>>

\* a second passes while the poll loop runs
Tick ==
    /\ pc \in {"poll", "checktime"}
    /\ elapsed < parse_build_timeout(args)
    /\ elapsed' = elapsed + 1
    /\ UNCHANGED <<profFile, pc, exitCode, spawned, child, desc, artifacts, trail, sflags, doc>>
    /\ UNCHANGED <<entry, args, seccompVars, protocolVars>>

\* the steps of the harness process
HarnessStep ==
    \/ Main_c
    \/ Main_part_000
    \/ Setup
    \/ Fork
    \/ ParentSetpgid
    \/ WaitBlock
    \/ Poll
    \/ CheckTime
    \/ SigTerm
    \/ Grace
    \/ SigKill
    \/ Reap
    \/ EmitHeader
    \/ BuildProtocolStep
    \/ BuildSeccompStep
    \/ EmitTrailer
    \/ Cleanup
    \/ MainReturn

\* the steps of everything else
FamilyStep ==
    \/ ChildSetpgid
    \/ ChildExec
    \/ ChildEnds
    \/ ChildLeavesGroup
    \/ KillDelivered
    \/ DescFork
    \/ DescEnds
    \/ DescLeavesGroup
    \/ FamilyUnlinks

Next ==
    \/ HarnessStep
    \/ FamilyStep
    \/ Tick

Spec ==
    HarnessInit /\ [][Next]_vars

\* the harness process is scheduled as long as it can run, time passes, and
\* a pending SIGKILL is delivered
FairSpec ==
    Spec /\ WF_vars(HarnessStep) /\ WF_vars(Tick) /\ WF_vars(KillDelivered)

(***************************************************************************)
(* Properties.                                                             *)
(***************************************************************************)
\* some line of out is the literal line t
HasLine(out, t) ==
    \E i \in 1..Len(out) : out[i] = Lit(t)

\* the harness has left the supervision of a child it forked
AfterSupervision ==
    spawned /\ pc \in {"synth", "protocol", "seccomp", "trailer", "cleanup", "return", "exited"}

\* the document holds every section: the header block first, the trailer
\* block last, and between them a network decision and a syscall count
DocComplete ==
    LET h == HeaderLines(args)
        t == TrailerLines(args)
    IN  /\ Len(doc) >= Len(h) + Len(t) + 2
        /\ SubSeq(doc, 1, Len(h)) = h
        /\ SubSeq(doc, Len(doc) - Len(t) + 1, Len(doc)) = t
        /\ \E i \in (Len(h) + 1)..(Len(doc) - Len(t)) :
              doc[i] \in {Lit("net none"), Lit("netfilter")}
        /\ \E i \in (Len(h) + 1)..(Len(doc) - Len(t)) :
              doc[i].text = "# %d syscalls total"

\* C1: whatever the outcome of the supervised child (exit, signal, forced
\* kill), once the harness has collected it the run ends with the complete
\* policy document in the sink, never with a partial one.
C1_CompleteDocumentForEveryOutcome ==
    (pc = "exited" /\ child.st = "reaped") => DocComplete

\* With a timeout configured the poll loop ends: the harness reaches
\* synthesis or the blocking wait of the timeout path. (FairSpec)
PollLoopTerminates ==
    (pc \in {"poll", "checktime", "sigterm", "grace", "sigkill"}) ~> (pc \in {"reap", "synth"})

\* The blocking wait of the timeout path returns when the child has ended or
\* SIGKILL is pending on it. (FairSpec)
ReapReturns ==
    (pc = "reap" /\ child.st \in {"dying", "zombie"}) ~> (pc = "synth")

\* From every position of the poll loop and of the timeout path the harness
\* reaches synthesis.  FairSpec does not satisfy this: a child that has left
\* its process group is not reached by kill(-pgid, ...), and the blocking
\* wait lasts as long as the child does.
SupervisionTerminates ==
    (pc \in {"poll", "checktime", "sigterm", "grace", "sigkill", "reap"}) ~> (pc = "synth")

\* Once synthesis has begun the run ends. (FairSpec)
SynthesisEnds ==
    (pc = "synth") ~> (pc = "exited")

\* the steps of the timeout path, in the order of the code
FullTrail ==
    <<"TIMEOUT", "SIGTERM", "GRACE", "SIGKILL", "REAP">>

\* how much of the timeout path lies behind each position of the harness
TrailAt(p) ==
    CASE p = "sigterm" -> 1
      [] p = "grace"   -> 2
      [] p = "sigkill" -> 3
      [] p = "reap"    -> 4
      [] OTHER         -> 0

\* C2: once the timeout has elapsed with the child's end not yet seen by the
\* non-blocking poll, the harness sends SIGTERM to the group, waits the grace
\* period, sends SIGKILL to the group and reaps the child with a blocking
\* wait, in this order and with no step left out; synthesis begins only
\* after the reap.
C2_TimeoutPathInOrder ==
    /\ \E k \in 0..Len(FullTrail) : trail = SubSeq(FullTrail, 1, k)
    /\ pc \in {"sigterm", "grace", "sigkill", "reap"} =>
          trail = SubSeq(FullTrail, 1, TrailAt(pc))
    /\ (AfterSupervision /\ trail # <<>>) => (trail = FullTrail /\ child.st = "reaped")
    /\ (~AfterSupervision /\ TrailAt(pc) = 0) => trail = <<>>

\* a run that timed out has gone through all four steps and starts synthesis
C2_Witness ==
    pc = "synth" /\ trail = FullTrail /\ child.how = "killed"

\* C3: when synthesis begins after a timeout, the child has been reaped and
\* no process is left running in the child's process group, whatever the
\* order of the two setpgid calls, the exec, the forks and the signals.
C3_GroupGoneAfterTimeout ==
    (AfterSupervision /\ trail # <<>>) =>
        /\ child.st = "reaped"
        /\ GroupDesc = {}

\* the names a trace file's lines yield
NamesIn(file) ==
    LET ps == ReadPieces(file.lines)
    IN  { extract_syscall_name(ps[i], NameSize).name :
            i \in { j \in 1..Len(ps) : extract_syscall_name(ps[j], NameSize).ok } }

\* the seccomp.keep lines of an output
KeepLines(out) ==
    { i \in 1..Len(out) : out[i].text = "seccomp.keep " }

\* the names the first m things fgets returned yield
NamesUpTo(ps, m) ==
    { extract_syscall_name(ps[i], NameSize).name :
        i \in { j \in 1..m : extract_syscall_name(ps[j], NameSize).ok } }

\* the least m in lo..hi for which NamesUpTo(ps, m) has CAP names, or hi
RECURSIVE FillPoint(_, _, _)
FillPoint(ps, lo, hi) ==
    IF lo >= hi THEN hi
    ELSE LET mid == (lo + hi) \div 2
         IN  IF Cardinality(NamesUpTo(ps, mid)) >= CAP
             THEN FillPoint(ps, lo, mid)
             ELSE FillPoint(ps, mid + 1, hi)

\* the first CAP distinct names of a trace file, in the order of its lines
\* (all its names when it has no more than CAP)
FirstNames(file) ==
    LET ps == ReadPieces(file.lines)
    IN  NamesUpTo(ps, FillPoint(ps, 0, Len(ps)))

\* the names on the seccomp.keep line are in strictly increasing order
KeepSorted ==
    /\ Cardinality(KeepLines(seccompOut)) <= 1
    /\ \A k \in KeepLines(seccompOut) :
          LET ns == seccompOut[k].names
          IN  \A i \in 1..(Len(ns) - 1) : StrLess(ns[i], ns[i + 1])

\* C4 as stated: for any input the names on the seccomp.keep line are in
\* strictly increasing lexicographic order (sorted, no duplicate), and they
\* are exactly the names the input's lines yield, each once, whatever the
\* order and the number of the lines that yield them.
C4_KeepEveryNameOnce ==
    sPhase = "done" =>
        /\ KeepSorted
        /\ \A k \in KeepLines(seccompOut) :
              LET ns == seccompOut[k].names
              IN  { ns[i] : i \in 1..Len(ns) } = NamesIn(traceIn)
        /\ (NamesIn(traceIn) # {} /\ traceIn.open) => KeepLines(seccompOut) # {}

\* C4, with the capacity: for any input the names on the seccomp.keep line
\* are in strictly increasing lexicographic order (sorted, no duplicate) and
\* each of them is a name the input yields; they are the first CAP distinct
\* names in the order of the lines, which is every name the input yields,
\* each once and whatever the order of the lines, when the input yields no
\* more than CAP distinct names.
C4_KeepSortedUnique ==
    sPhase = "done" =>
        /\ KeepSorted
        /\ \A k \in KeepLines(seccompOut) :
              LET ns == seccompOut[k].names
                  kept == { ns[i] : i \in 1..Len(ns) }
              IN  /\ kept = FirstNames(traceIn)
                  /\ kept \subseteq NamesIn(traceIn)
                  /\ Len(ns) = Min(Cardinality(NamesIn(traceIn)), CAP)
                  /\ Cardinality(NamesIn(traceIn)) <= CAP => kept = NamesIn(traceIn)
        /\ (NamesIn(traceIn) # {} /\ traceIn.open) => KeepLines(seccompOut) # {}

\* beyond the capacity the order of the lines decides which names are kept:
\* two files with the same names in another order give different lists
OrderMattersBeyondCap ==
    (sPhase = "done" /\ traceIn = File(OverCapTraceLastFirst)) =>
        /\ NamesIn(traceIn) = NamesIn(File(OverCapTrace))
        /\ seccompOut # build_seccomp(File(OverCapTrace))

\* "[pid 100] openat(3", "read(0", "openat(4" yield openat once, before read
OpenatExample ==
    /\ sPhase = "done"
    /\ traceIn.lines = <<L_pid_openat, L_read, L_openat>>
    /\ seccompOut[1] = KeepLine(<<SubSeq(L_openat, 1, 6), SubSeq(L_read, 1, 4)>>)

\* a file that yields more than CAP distinct names, the first of them on two
\* lines (with and without a [pid N] prefix, with differing arguments), was
\* read: the list has CAP names, the first name of the file once, and not
\* the name that came when the array was full
C4_Witness ==
    /\ sPhase = "done"
    /\ traceIn = File(OverCapTraceLastFirst)
    /\ Cardinality(NamesIn(traceIn)) > CAP
    /\ Len(seccompOut[1].names) = CAP
    /\ Cardinality({ i \in 1..CAP :
                       seccompOut[1].names[i] = SysName(CAP + MaxOverflow) }) = 1
    /\ \A i \in 1..CAP : seccompOut[1].names[i] # SysName(CAP + MaxOverflow - 1)

\* the families the lines of the scanned files name
ObservedFams(fs) ==
    { f \in DOMAIN NoFlags :
        \E i \in 0..LastShard :
            /\ fs[i].open
            /\ LET ps == ReadPieces(fs[i].lines)
               IN  \E k \in 1..Len(ps) : process_protocol_line(NoFlags, ps[k])[f] }

\* IPv4, IPv6, packet, bluetooth
RoutableFams ==
    {"inet", "inet6", "packet", "bluetooth"}

\* C5: build_protocol writes "net none" exactly when no routable family was
\* observed in the scanned files, unix and netlink sockets notwithstanding;
\* otherwise it writes "#net eth0" and then "netfilter", and no "net none".
C5_NetNoneIffNoRoutableFamily ==
    pPhase = "ran" =>
        LET routed == ObservedFams(lastFs) \cap RoutableFams # {}
            n      == Len(protoOut)
        IN  /\ HasLine(protoOut, "net none") <=> ~routed
            /\ HasLine(protoOut, "netfilter") <=> routed
            /\ routed => /\ n >= 2
                         /\ protoOut[n - 1] = Lit("#net eth0")
                         /\ protoOut[n] = Lit("netfilter")
            /\ ObservedFams(lastFs) = {} => protoOut = <<Lit("net none")>>

\* local and no routable sockets: the protocol line, then "net none"
C5_Witness ==
    /\ pPhase = "ran"
    /\ ObservedFams(lastFs) = {"unix_s"}
    /\ protoOut = <<ProtocolLine(<<"unix,">>), Lit("net none")>>

\* C6: whatever build_protocol ran on before in the same process, an
\* invocation writes what a first invocation on the same files writes, and
\* leaves the flags a first invocation leaves.
C6_NoLeakAcrossInvocations ==
    pPhase = "ran" =>
        /\ protoOut = build_protocol(NoFlags, lastFs).out
        /\ flags = build_protocol(NoFlags, lastFs).flags

\* an invocation that found flags set by an earlier one and saw no family
C6_Witness ==
    /\ pPhase = "ran"
    /\ staleAtEntry
    /\ ObservedFams(lastFs) = {}
    /\ protoOut = <<Lit("net none")>>

\* AF_INET in the primary file, AF_INET6 in shard 1 only
InetShardExample ==
    WithPrimary(File(<<P_inet>>), [NoShards EXCEPT ![1] = File(<<P_inet6>>)])

\* C7: the flags after an invocation are the union of the families found in
\* the primary file and in each shard 1..5 that exists, a missing shard
\* hiding no later one; AF_INET in the primary file and AF_INET6 in shard 1
\* give "protocol inet,inet6," and then "netfilter".  No missing shard ends
\* the run: it ends in exit(1) only on a primary file that cannot be opened
\* or on a shard that exists and cannot be opened.
C7_FlagsAreUnionOverShards ==
    /\ pPhase = "ran" =>
          /\ \A f \in DOMAIN NoFlags : flags[f] <=> f \in ObservedFams(lastFs)
          /\ lastFs[0].open
          /\ \A i \in 1..LastShard : lastFs[i].exists => lastFs[i].open
          /\ lastFs = InetShardExample =>
                protoOut = <<ProtocolLine(<<"inet,inet6,">>), Lit("#net eth0"),
                             Lit("netfilter")>>
    /\ pPhase = "aborted" =>
          \/ ~lastFs[0].open
          \/ \E i \in 1..LastShard : lastFs[i].exists /\ ~lastFs[i].open

\* shards 1 and 2 are missing, shard 3 exists and is the only file that
\* names a family
C7_Witness ==
    /\ pPhase = "ran"
    /\ ~lastFs[1].exists /\ ~lastFs[2].exists /\ lastFs[3].exists
    /\ ObservedFams(WithPrimary(lastFs[0], NoShards)) = {}
    /\ flags.inet6

\* C8: a run that ends with a fatal error has written no line of the policy
\* document.
C8_NoPartialDocumentOnAbort ==
    (pc = "exited" /\ exitCode = 1) => doc = <<>>

\* C9: a --build=<file> path that exists already or cannot be opened is left
\* as it was, and the run fails before fork.
C9_ProfileFileNeverClobbered ==
    /\ profFile # "truncated"
    /\ (args.build = "file" /\ profFile \in {"old", "readonly", "nodir"} /\ pc # "main") =>
          (pc = "exited" /\ exitCode = 1 /\ ~spawned)

\* the trace file cannot be opened, or none of its lines yields a name
NoSyscalls(file) ==
    ~file.open \/ NamesIn(file) = {}

\* C10 as stated: the fallback is a block of three lines.
C10_ThreeLineFallback ==
    (sPhase = "done" /\ NoSyscalls(traceIn)) =>
        /\ Len(seccompOut) = 3
        /\ seccompOut[1] = CountLine(0)
        /\ KeepLines(seccompOut) = {}

\* C10: for a trace file that cannot be opened, is empty or yields no name,
\* build_seccomp writes exactly four lines, "# 0 syscalls total" and the
\* three lines of the hint, the same for all three cases, and returns.
C10_FourLineFallback ==
    (sPhase = "done" /\ NoSyscalls(traceIn)) =>
        seccompOut =
            << CountLine(0),
               Lit("# Probably you will need to add more syscalls to seccomp.keep. Look for"),
               Lit("# seccomp errors in /var/log/syslog or /var/log/audit/audit.log while"),
               Lit("# running your sandbox.") >>

\* a file of tracer meta-output only ends in the fallback block
C10_Witness ==
    /\ sPhase = "done"
    /\ traceIn.exists /\ Len(traceIn.lines) = 2
    /\ NamesIn(traceIn) = {}
    /\ Len(seccompOut) = 4
    /\ seccompOut[1] = CountLine(0)

(***************************************************************************)
(* C11: the capacity of the syscall name set.                              *)
(***************************************************************************)
\* what the output must be once the loop has stored arr
CapOutputOk ==
    IF fedNames = 0 THEN seccompOut = FallbackBlock
    ELSE /\ Len(seccompOut) = 5
         /\ seccompOut[1].text = "seccomp.keep "
         /\ Len(seccompOut[1].names) = Min(fedNames, CAP)
         /\ { seccompOut[1].names[i] : i \in 1..Len(seccompOut[1].names) }
               = { SysName(k) : k \in 1..Min(fedNames, CAP) }
         /\ seccompOut[2] = CountLine(Min(fedNames, CAP))

\* C11: after any sequence of insertions the name array holds as many names
\* as distinct valid names were read, but never more than CAP (4096): a name
\* read again is not stored twice and a new name that arrives when the array
\* is full is dropped; no insertion changes a name already stored; and when
\* the file ends the output is written with one name per stored name, so
\* exactly 4096 names when the trace held more than 4096 distinct ones.
C11_CapacityNeverExceeded ==
    /\ [](/\ Len(syscallsArr) = Min(fedNames, CAP)
          /\ Len(syscallsArr) <= CAP
          /\ sPhase = "done" => CapOutputOk)
    /\ [][/\ Len(syscallsArr') >= Len(syscallsArr)
          /\ SubSeq(syscallsArr', 1, Len(syscallsArr)) = syscallsArr]_vars

\* a trace with more than CAP distinct names was read to its end, and the
\* seccomp.keep line holds CAP names
C11_Witness ==
    /\ sPhase = "done"
    /\ fedNames > CAP
    /\ Len(syscallsArr) = CAP
    /\ Len(seccompOut[1].names) = CAP

(***************************************************************************)
(* C12: the network decision in the whole document.                        *)
(***************************************************************************)
\* build_profile has written the document to its last line
DocWritten ==
    /\ spawned
    /\ pc \in {"cleanup", "return"} \/ (pc = "exited" /\ exitCode = 0)

\* the lines of the document that are an active netfilter directive
NetfilterLines ==
    { i \in 1..Len(doc) : doc[i] = Lit("netfilter") }

\* C12: in the complete document an active "netfilter" line appears only
\* when a routable family (IPv4, IPv6, packet, bluetooth) was observed, it
\* appears at most once, and a document with "net none" has no active
\* "netfilter" line.
C12_NetworkDecisionConsistent ==
    DocWritten =>
        /\ NetfilterLines # {} => \E f \in RoutableFams : sflags[f]
        /\ Cardinality(NetfilterLines) <= 1
        /\ HasLine(doc, "net none") => NetfilterLines = {}

====
